---- MODULE Spec2Model ----
(***************************************************************************)
(* A model of src/Assignment2/chow-liu-tree.py: the BinaryCLT object (its  *)
(* fields, get_tree, get_log_params, log_prob, sample) and get_post_order. *)
(*                                                                         *)
(* Numbers.  The code works with natural logarithms of probabilities.  A   *)
(* log-value ln(p/q) is represented by the pair <<p, q>> in lowest terms:  *)
(* adding log-values multiplies the pairs, logsumexp adds them.  ln(0),    *)
(* that is -inf, is <<0, 1>> and nan is <<0, 0>>.  The arithmetic is exact *)
(* (floating-point rounding is not modelled).                              *)
(* Indices are 0-based as in the code: rows and arrays are functions on    *)
(* 0..len-1.                                                               *)
(***************************************************************************)
EXTENDS Integers, Sequences, FiniteSets, TLC

\* Largest number of variables D and of data rows N of the datasets drawn.
MaxD == 3
MaxN == 2

VARIABLES
    pc,                 \* "new" | "idle" | "draw" | "while" | "scan" | "ret"
    data, alpha, n, d, root,            \* fields set by __init__
    mst, tree, mi, log_params,          \* fields that __init__ sets to None
    call,               \* the call in progress or just finished
    ret,                \* its outcome
    elimination_order, factors,         \* locals of log_prob() at line 225
    orphans,            \* history: the variables log_prob eliminated after their
                        \* parent's factor was gone
    samples, sample, num_variables_set, jscan,   \* locals of sample()
    writes              \* history: the writes of this draw to sample, in order

vars == <<pc, data, alpha, n, d, root, mst, tree, mi, log_params, call, ret,
          elimination_order, factors, orphans,
          samples, sample, num_variables_set, jscan, writes>>

fields == <<data, alpha, n, d, root, mst, tree, mi, log_params>>
locals == <<elimination_order, factors, orphans,
           samples, sample, num_variables_set, jscan, writes>>

\* Python's None, and a field that holds a value.
None == <<>>
Some(v) == <<v>>
Get(o) == o[1]

\* scipy's predecessor of a node the traversal never reached.
NULL_IDX == -9999

-----------------------------------------------------------------------------
(* Exact arithmetic on log-values *)

RECURSIVE GCD(_, _)
GCD(a, b) == IF b = 0 THEN a ELSE GCD(b, a % b)

NaN == <<0, 0>>
NegInf == <<0, 1>>
LogOne == <<1, 1>>          \* the float 0.0 = ln 1

IsNaN(v) == v[2] = 0

Norm(p, q) == IF q = 0 THEN NaN
              ELSE IF p = 0 THEN NegInf
              ELSE LET g == GCD(p, q) IN <<p \div g, q \div g>>

\* np.log(p / q) for counts p, q >= 0 (0/0 is nan, log 0 is -inf).
LogRatio(p, q) == Norm(p, q)

\* a + b on log-values.
LAdd(a, b) == IF IsNaN(a) \/ IsNaN(b) THEN NaN ELSE Norm(a[1] * b[1], a[2] * b[2])

\* logsumexp([a, b]).
LSE2(a, b) == IF IsNaN(a) \/ IsNaN(b) THEN NaN
              ELSE Norm(a[1] * b[2] + b[1] * a[2], a[2] * b[2])

-----------------------------------------------------------------------------
(* Datasets *)

Rows(dd) == [0..dd-1 -> {0, 1}]

RECURSIVE RowVal(_, _)
RowVal(r, k) == IF k = 0 THEN 0 ELSE r[k-1] + 2 * RowVal(r, k-1)

\* The N x D binary matrices with 1 <= N <= MaxN.  Every method reads the data
\* only through counts over its rows, so the rows are drawn in sorted order.
Datasets(dd) ==
    {s \in UNION {[1..nn -> Rows(dd)] : nn \in 1..MaxN} :
        \A a \in 1..Len(s)-1 : RowVal(s[a], dd) <= RowVal(s[a+1], dd)}

-----------------------------------------------------------------------------
(* _pairwise_mi *)

\* np.log on the integers the smoothed counts reach, in millionths, additive
\* over products as the real logarithm is.
LnPrime(p) == CASE p = 2 -> 693147 [] p = 3 -> 1098612 [] p = 5 -> 1609438
                [] p = 7 -> 1945910 [] p = 11 -> 2397895 [] p = 13 -> 2564949
                [] OTHER -> 0

RECURSIVE Ln(_)
Ln(k) == IF k <= 1 THEN 0
         ELSE LET p == CHOOSE q \in 2..k : k % q = 0 /\ \A r \in 2..q-1 : k % r # 0
              IN LnPrime(p) + Ln(k \div p)

\* nij of lines 58-66: the smoothed 2x2 table of columns i and k.
Nij(dat, i, k, al) ==
    [a \in 0..1 |-> [b \in 0..1 |->
        al + Cardinality({jj \in 1..Len(dat) : dat[jj][i] = a /\ dat[jj][k] = b})]]

\* mi_ij of lines 69-74, times (n + 4 alpha) * 10^6: Some(value), or None for nan
\* (a zero cell makes 0 * log 0).
MIPair(dat, i, k, al) ==
    LET t  == Nij(dat, i, k, al)
        T  == t[0][0] + t[0][1] + t[1][0] + t[1][1]
        ni == [a \in 0..1 |-> t[a][0] + t[a][1]]
        nj == [b \in 0..1 |-> t[0][b] + t[1][b]]
        term(a, b) == t[a][b] * (Ln(t[a][b]) + Ln(T) - Ln(ni[a]) - Ln(nj[b]))
    IN IF \E a, b \in 0..1 : t[a][b] = 0 THEN None
       ELSE Some(term(0, 0) + term(0, 1) + term(1, 0) + term(1, 1))

PairwiseMI(dat, dd, al) ==
    [i \in 0..dd-1 |-> [k \in 0..dd-1 |->
        IF i = k THEN Some(0)
        ELSE MIPair(dat, IF i < k THEN i ELSE k, IF i < k THEN k ELSE i, al)]]

-----------------------------------------------------------------------------
(* _run_search *)

\* The edges scipy reads from the dense matrix -mi: a zero or nan entry is no edge.
GraphEdges(m, dd) ==
    {e \in (0..dd-1) \X (0..dd-1) :
        e[1] < e[2] /\ m[e[1]][e[2]] # None /\ Get(m[e[1]][e[2]]) # 0}

Nbrs(F, S) == S \cup {v \in UNION {{e[1], e[2]} : e \in F} :
                        \E e \in F : (e[1] \in S /\ e[2] = v) \/ (e[2] \in S /\ e[1] = v)}

RECURSIVE ReachK(_, _, _)
ReachK(F, S, k) == IF k = 0 THEN S ELSE ReachK(F, Nbrs(F, S), k - 1)

Reach(F, s, dd) == ReachK(F, {s}, dd)

RECURSIVE Weight(_, _)
Weight(m, F) == IF F = {} THEN 0
                ELSE LET e == CHOOSE x \in F : TRUE
                     IN Get(m[e[1]][e[2]]) + Weight(m, F \ {e})

SpanningForests(E, dd) ==
    {F \in SUBSET E :
        /\ \A s \in 0..dd-1 : Reach(F, s, dd) = Reach(E, s, dd)
        /\ Cardinality(F) = dd - Cardinality({Reach(E, s, dd) : s \in 0..dd-1})}

\* minimum_spanning_tree(-mi): the spanning forests of greatest total mi.  Which
\* of several of equal weight scipy returns is left open.
MinimumSpanningTrees(m, dd) ==
    LET SF == SpanningForests(GraphEdges(m, dd), dd)
    IN {F \in SF : \A G \in SF : Weight(m, G) <= Weight(m, F)}

\* breadth_first_order(mst, i_start=r, directed=False): the predecessors.
Predecessors(F, r, dd) ==
    [v \in 0..dd-1 |->
        IF v = r \/ v \notin Reach(F, r, dd) THEN NULL_IDX
        ELSE CHOOSE u \in 0..dd-1 :
                /\ (<<u, v>> \in F \/ <<v, u>> \in F)
                /\ u \in Reach(F \ {<<u, v>>, <<v, u>>}, r, dd)]

\* lines 86-91, for a root inside the array.
Parents(F, r, dd) == [Predecessors(F, r, dd) EXCEPT ![r] = -1]

-----------------------------------------------------------------------------
(* Python indexing *)

\* An index k is accepted by a numpy axis or array of length len.
InRange(k, len) == -len <= k /\ k < len

\* The position a (possibly negative) accepted index reads.
Pos(k, len) == IF k < 0 THEN k + len ELSE k

\* A Python list of length len, as a function on 0..len-1.
ListLen(l) == Cardinality(DOMAIN l)
ListAppend(l, v) == [k \in 0..ListLen(l) |-> IF k < ListLen(l) THEN l[k] ELSE v]

-----------------------------------------------------------------------------
(* _learn_parameters *)

\* lines 31-38: the block of the root variable i.
RootBlock(dat, i, al) ==
    LET counts == [x \in 0..1 |->
                      Cardinality({jj \in 1..Len(dat) : dat[jj][i] = x}) + 2 * al]
    IN [p \in 0..1 |-> [x \in 0..1 |-> LogRatio(counts[x], counts[0] + counts[1])]]

\* lines 40-47: the block of variable i under parent par (a column of the data).
ChildBlock(dat, i, par, al) ==
    LET counts == [p \in 0..1 |-> [x \in 0..1 |->
                      Cardinality({jj \in 1..Len(dat) :
                                      dat[jj][par] = p /\ dat[jj][i] = x}) + al]]
    IN [p \in 0..1 |-> [x \in 0..1 |->
           LogRatio(counts[p][x], counts[p][0] + counts[p][1])]]

\* Iteration i of the loop of line 29 raises: self.tree is None (line 40), or
\* the parent is no column of the data (line 43).
LearnRaises(dat, dd, r, t, i) ==
    /\ i # r
    /\ \/ t = None
       \/ ~InRange(Get(t)[i], dd)

\* The list self.log_params after iterations i..d-1, starting from acc; the loop
\* stops at the first iteration that raises.
RECURSIVE LearnFrom(_, _, _, _, _, _, _)
LearnFrom(dat, dd, r, al, t, i, acc) ==
    IF i = dd THEN [raised |-> FALSE, list |-> acc]
    ELSE IF LearnRaises(dat, dd, r, t, i) THEN [raised |-> TRUE, list |-> acc]
    ELSE LearnFrom(dat, dd, r, al, t, i + 1,
            ListAppend(acc, IF i = r THEN RootBlock(dat, i, al)
                            ELSE ChildBlock(dat, i, Pos(Get(t)[i], dd), al)))

LearnParameters(dat, dd, r, al, t) == LearnFrom(dat, dd, r, al, t, 0, <<>>)

-----------------------------------------------------------------------------
(* get_post_order *)

Children(t, len, node) == {c \in 0..len-1 : t[c] = node}

\* line 275 raises KeyError on a parent that is no key of children; line 281 on
\* a root that is none.
PostOrderRaises(t, len, r) ==
    \/ \E c \in 0..len-1 : t[c] # -1 /\ t[c] \notin 0..len-1
    \/ r \notin 0..len-1

\* A traversal that appends the node before its children (pre-order).
RECURSIVE DfsPre(_, _, _)
RECURSIVE DfsPreList(_, _, _, _)
DfsPreList(t, len, cs, from) ==
    IF \A c \in cs : c < from THEN <<>>
    ELSE LET c == CHOOSE x \in cs : x >= from /\ \A y \in cs : y >= from => x <= y
         IN DfsPre(t, len, c) \o DfsPreList(t, len, cs, c + 1)
DfsPre(t, len, node) ==
    <<node>> \o DfsPreList(t, len, {c \in 0..len-1 : t[c] = node}, 0)

\* dfs(node): the children in increasing order, each with its subtree, then node.
RECURSIVE Dfs(_, _, _)
RECURSIVE DfsList(_, _, _, _)
DfsList(t, len, cs, from) ==
    IF \A c \in cs : c < from THEN <<>>
    ELSE LET c == CHOOSE x \in cs : x >= from /\ \A y \in cs : y >= from => x <= y
         IN Dfs(t, len, c) \o DfsList(t, len, cs, c + 1)
Dfs(t, len, node) == DfsList(t, len, Children(t, len, node), 0) \o <<node>>

get_post_order(t, len, r) == Dfs(t, len, r)

-----------------------------------------------------------------------------
(* log_prob *)

\* np.nan in a query, as an integer code apart from every entry value drawn.
nan == 7

\* np.where(np.isnan(query))[0] and np.where(~np.isnan(query))[0].
MissingVars(query) == {i \in DOMAIN query : query[i] = nan}
ObservedVars(query) == {i \in DOMAIN query : query[i] # nan}

\* The joint of lines 141-149 (and 165-173) raises on the row `filled`: the
\* tree or the CPT list is None or too short, the row is too short, or a value
\* is no index of a CPT axis.
JointRaises(t, lp, dd, filled) ==
    \/ t = None
    \/ lp = None
    \/ \E i \in 0..dd-1 :
          \/ i \notin DOMAIN filled
          \/ i \notin DOMAIN Get(lp)
          \/ ~InRange(filled[i], 2)
          \/ /\ Get(t)[i] # -1
             /\ \/ ~InRange(Get(t)[i], ListLen(filled))
                \/ ~InRange(filled[Pos(Get(t)[i], ListLen(filled))], 2)

\* logp of lines 141-149: the sum over i of the CPT entry of variable i.
RECURSIVE JointFrom(_, _, _, _, _)
JointFrom(t, lp, dd, filled, i) ==
    IF i = dd THEN LogOne
    ELSE LET xi == Pos(filled[i], 2)
             parent == t[i]
             entry == IF parent = -1 THEN lp[i][0][xi]
                      ELSE lp[i][Pos(filled[Pos(parent, ListLen(filled))], 2)][xi]
         IN LAdd(entry, JointFrom(t, lp, dd, filled, i + 1))

Joint(t, lp, dd, filled) == JointFrom(Get(t), Get(lp), dd, filled, 0)

\* The completions of line 136: the missing entries filled with 0 or 1.
Completions(query) ==
    {[i \in DOMAIN query |-> IF query[i] = nan THEN m[i] ELSE query[i]] :
        m \in [MissingVars(query) -> {0, 1}]}

\* logsumexp of the list of one value per completion in S.
RECURSIVE LogSumExpOver(_, _, _, _)
LogSumExpOver(t, lp, dd, S) ==
    LET f == CHOOSE x \in S : TRUE
    IN IF Cardinality(S) = 1 THEN Joint(t, lp, dd, f)
       ELSE LSE2(Joint(t, lp, dd, f), LogSumExpOver(t, lp, dd, S \ {f}))

\* A factor is a numpy array: shape = <<1>>, <<2>> or <<2, 2>> (<<>> for the
\* scalar logsumexp returns), a = its entries.
Arr1(x) == [shape |-> <<1>>, a |-> <<x>>]
Arr2(x0, x1) == [shape |-> <<2>>, a |-> <<x0, x1>>]
Arr22(b) == [shape |-> <<2, 2>>, a |-> <<b[0][0], b[0][1], b[1][0], b[1][1]>>]
Arr0(x) == [shape |-> <<>>, a |-> <<x>>]

\* logsumexp(f, axis=-1).
LogSumExpLast(f) ==
    IF f.shape = <<1>> THEN Arr0(f.a[1])
    ELSE IF f.shape = <<2>> THEN Arr0(LSE2(f.a[1], f.a[2]))
    ELSE Arr2(LSE2(f.a[1], f.a[2]), LSE2(f.a[3], f.a[4]))

\* f + m with numpy's broadcasting, m a scalar or a vector of length 2.
ArrAdd(f, m) ==
    IF m.shape = <<>> THEN [f EXCEPT !.a = [k \in DOMAIN f.a |-> LAdd(f.a[k], m.a[1])]]
    ELSE IF f.shape = <<1>> THEN Arr2(LAdd(f.a[1], m.a[1]), LAdd(f.a[1], m.a[2]))
    ELSE IF f.shape = <<2>> THEN Arr2(LAdd(f.a[1], m.a[1]), LAdd(f.a[2], m.a[2]))
    ELSE [f EXCEPT !.a = <<LAdd(f.a[1], m.a[1]), LAdd(f.a[2], m.a[2]),
                            LAdd(f.a[3], m.a[1]), LAdd(f.a[4], m.a[2])>>]

\* np.sum(val).
RECURSIVE SumFrom(_, _)
SumFrom(a, k) == IF k > Len(a) THEN LogOne ELSE LAdd(a[k], SumFrom(a, k + 1))
ArrSum(f) == SumFrom(f.a, 1)

\* Lines 179-207 raise while building the factor of variable i.
FactorRaises(t, lp, query, i) ==
    \/ t = None
    \/ lp = None
    \/ i \notin DOMAIN Get(lp)
    \/ /\ i \in ObservedVars(query)
       /\ \/ ~InRange(query[i], 2)
          \/ /\ Get(t)[i] # -1
             /\ Get(t)[i] \in ObservedVars(query)
             /\ ~InRange(query[Get(t)[i]], 2)
    \/ /\ i \notin ObservedVars(query)
       /\ Get(t)[i] # -1
       /\ Get(t)[i] \in ObservedVars(query)
       /\ ~InRange(query[Get(t)[i]], 2)

\* factors[i] of lines 179-207.
Factor(t, lp, query, i) ==
    LET parent == t[i]
        obs == ObservedVars(query)
        b == lp[i]
    IN IF i \in obs
       THEN LET xi == Pos(query[i], 2)
            IN IF parent = -1 THEN Arr1(b[0][xi])
               ELSE IF parent \in obs THEN Arr1(b[Pos(query[parent], 2)][xi])
               ELSE Arr2(b[0][xi], b[1][xi])
       ELSE IF parent = -1 THEN Arr2(b[0][0], b[0][1])
            ELSE IF parent \in obs
                 THEN LET pi == Pos(query[parent], 2) IN Arr2(b[pi][0], b[pi][1])
                 ELSE Arr22(b)

\* An elimination that leaves the factor of a missing root in the dict.
RECURSIVE EliminateKeepRoot(_, _, _, _, _)
EliminateKeepRoot(t, query, order, k, st) ==
    IF k > Len(order) THEN st
    ELSE LET var == order[k]
             parent == t[var]
             fs == st.factors
             rest == [v \in DOMAIN fs \ {var} |-> fs[v]]
         IN IF var \notin MissingVars(query) \/ parent = -1
            THEN EliminateKeepRoot(t, query, order, k + 1, st)
            ELSE IF parent \notin DOMAIN fs
            THEN EliminateKeepRoot(t, query, order, k + 1,
                    [factors |-> rest, orphans |-> st.orphans \cup {var}])
            ELSE EliminateKeepRoot(t, query, order, k + 1,
                    [st EXCEPT !.factors = [rest EXCEPT ![parent] =
                        ArrAdd(fs[parent], LogSumExpLast(fs[var]))]])

\* Lines 211-222: elimination_order[k..] is visited, a missing variable
\* eliminated into its parent's factor.  st.factors is the dict, st.orphans the
\* variables eliminated so far whose parent's factor was no longer there.
RECURSIVE Eliminate(_, _, _, _, _)
Eliminate(t, query, order, k, st) ==
    IF k > Len(order) THEN st
    ELSE LET var == order[k]
             parent == t[var]
             fs == st.factors
             rest == [v \in DOMAIN fs \ {var} |-> fs[v]]
         IN IF var \notin MissingVars(query)
            THEN Eliminate(t, query, order, k + 1, st)
            ELSE IF parent = -1
            THEN Eliminate(t, query, order, k + 1, [st EXCEPT !.factors = rest])
            ELSE IF parent \notin DOMAIN fs
            THEN Eliminate(t, query, order, k + 1,
                    [factors |-> rest, orphans |-> st.orphans \cup {var}])
            ELSE Eliminate(t, query, order, k + 1,
                    [st EXCEPT !.factors = [rest EXCEPT ![parent] =
                        ArrAdd(fs[parent], LogSumExpLast(fs[var]))]])

\* Lines 225-231: the sum of what is left in every remaining factor.
RECURSIVE SumFactors(_, _)
SumFactors(fs, S) ==
    IF S = {} THEN LogOne
    ELSE LET v == CHOOSE x \in S : TRUE
         IN LAdd(ArrSum(fs[v]), SumFactors(fs, S \ {v}))

\* What a query leaves when it never reaches line 209.
NoElimination == [elimination_order |-> <<>>, factors |-> <<>>, orphans |-> {}]

Raised == [raised |-> TRUE, value |-> NaN] @@ NoElimination

\* lines 157-233: one query, exhaustive=False.
EliminationQuery(t, lp, dd, r, query) ==
    IF MissingVars(query) = {}
    THEN IF JointRaises(t, lp, dd, query) THEN Raised
         ELSE [raised |-> FALSE, value |-> Joint(t, lp, dd, query)] @@ NoElimination
    ELSE IF \/ \E i \in 0..dd-1 : FactorRaises(t, lp, query, i)
            \/ PostOrderRaises(Get(t), dd, r)
         THEN Raised
         ELSE LET order == get_post_order(Get(t), dd, r)
                  st == Eliminate(Get(t), query, order, 1,
                          [factors |-> [i \in 0..dd-1 |->
                                          Factor(Get(t), Get(lp), query, i)],
                           orphans |-> {}])
              IN [raised |-> FALSE,
                  value |-> SumFactors(st.factors, DOMAIN st.factors),
                  elimination_order |-> order,
                  factors |-> st.factors,
                  orphans |-> st.orphans]

\* lines 130-154: one query, exhaustive=True.
ExhaustiveQuery(t, lp, dd, query) ==
    IF \E f \in Completions(query) : JointRaises(t, lp, dd, f) THEN Raised
    ELSE [raised |-> FALSE, value |-> LogSumExpOver(t, lp, dd, Completions(query))]
         @@ NoElimination

\* log_prob(x, exhaustive) on the batch x[k..]: the list lp and the locals the
\* last query leaves, unless a query raises.
RECURSIVE LogProbFrom(_, _, _, _, _, _, _)
LogProbFrom(t, lp, dd, r, x, exhaustive, k) ==
    LET one == IF exhaustive THEN ExhaustiveQuery(t, lp, dd, x[k])
               ELSE EliminationQuery(t, lp, dd, r, x[k])
    IN IF one.raised THEN Raised
       ELSE IF k = Len(x) THEN [one EXCEPT !.value = <<one.value>>]
       ELSE LET more == LogProbFrom(t, lp, dd, r, x, exhaustive, k + 1)
            IN IF more.raised THEN Raised
               ELSE [more EXCEPT !.value = <<one.value>> \o more.value]

LogProbOf(t, lp, dd, r, x, exhaustive) ==
    IF x = <<>> THEN [raised |-> FALSE, value |-> <<>>] @@ NoElimination
    ELSE LogProbFrom(t, lp, dd, r, x, exhaustive, 1)

-----------------------------------------------------------------------------
(* Inputs *)

\* The queries of a model of dd variables: every entry 0, 1 or missing.
Queries(dd) == [0..dd-1 -> {0, 1, nan}]

\* Queries that are none, with one fault each: one entry -1 or 2, or one entry
\* too few or too many.
Entries == {0, 1, nan, -1, 2}
IllFormedQueries(dd) ==
    {q \in [0..dd-1 -> Entries] :
        Cardinality({i \in 0..dd-1 : q[i] \in {-1, 2}}) = 1}
    \cup [0..dd-2 -> {0, 1, nan}] \cup [0..dd -> {0, 1, nan}]

\* The values of n_samples: each draw of sample() starts afresh.
SampleCounts == {0, 1}

\* The smoothing constants drawn: 1 stands for alpha > 0, 0 for alpha <= 0.
Alphas == {0, 1}

\* The root argument: None, an index, or d (one past the last index).
RootArgs(dd) == {None} \cup {Some(r) : r \in 0..dd}

\* The arguments of a construction as line 369 makes it: the root given and
\* in [0, d), or left to the draw of line 21, and alpha > 0.
ValidRootArgs(dd) == {None} \cup {Some(r) : r \in 0..dd-1}
ValidAlphas == {al \in Alphas : al > 0}

\* The datasets of one row of equal entries.  With alpha > 0 the mutual
\* information of every pair of their columns is the same and not zero, so that
\* every spanning tree of the complete graph is one minimum_spanning_tree(-mi)
\* may return, and no CPT entry is 0 or 1.
OneRowDatasets(dd) == {<<[i \in 0..dd-1 |-> b]>> : b \in {0, 1}}

-----------------------------------------------------------------------------
NoLocals ==
    /\ elimination_order = <<>> /\ factors = <<>> /\ orphans = {}
    /\ samples = <<>> /\ sample = <<>> /\ num_variables_set = 0 /\ jscan = 0
    /\ writes = <<>>

Init ==
    /\ pc = "new"
    /\ data = None /\ alpha = 0 /\ n = 0 /\ d = 0 /\ root = 0
    /\ mst = None /\ tree = None /\ mi = None /\ log_params = None
    /\ call = [op |-> "none"]
    /\ ret = [status |-> "none", value |-> None]
    /\ NoLocals

\* __init__(data, root, alpha): root_arg is None or Some(index).
Construct(dat, dd, root_arg, al) ==
    /\ pc = "new"
    /\ data' = dat
    /\ alpha' = al
    /\ n' = Len(dat) /\ d' = dd
    /\ root' \in (IF root_arg = None THEN 0..dd-1 ELSE {Get(root_arg)})
    /\ mst' = None /\ tree' = None /\ mi' = None /\ log_params' = None
    /\ pc' = "idle"
    /\ UNCHANGED <<call, ret, locals>>

\* A get_tree() that draws the root again.
GetTreeRedraw ==
    /\ pc = "idle"
    /\ mi' = Some(PairwiseMI(data, d, alpha))
    /\ mst' \in (IF mst # None THEN {mst}
                 ELSE {Some(F) : F \in MinimumSpanningTrees(Get(mi'), d)})
    /\ root' \in 0..d-1
    /\ tree' = Some(Parents(Get(mst'), root', d))
    /\ ret' = [status |-> "ok", value |-> tree']
    /\ call' = [op |-> "get_tree"]
    /\ pc' = "ret"
    /\ UNCHANGED <<data, alpha, n, d, log_params, locals>>

\* get_tree(): _pairwise_mi, then _run_search.  scipy is deterministic, so a
\* second call finds the same spanning tree.  With the root outside [0, d) the
\* assignment parents[self.root] = -1 raises before self.tree is set.
GetTree ==
    /\ pc = "idle"
    /\ mi' = Some(PairwiseMI(data, d, alpha))
    /\ mst' \in (IF mst # None THEN {mst}
                 ELSE {Some(F) : F \in MinimumSpanningTrees(Get(mi'), d)})
    /\ IF root \in 0..d-1
       THEN /\ tree' = Some(Parents(Get(mst'), root, d))
            /\ ret' = [status |-> "ok", value |-> tree']
       ELSE /\ tree' = tree
            /\ ret' = [status |-> "raised", value |-> None]
    /\ call' = [op |-> "get_tree"]
    /\ pc' = "ret"
    /\ UNCHANGED <<data, alpha, n, d, root, log_params, locals>>

\* get_log_params(): _learn_parameters, then np.stack of the list.
GetLogParams ==
    /\ pc = "idle"
    /\ LET res == LearnParameters(data, d, root, alpha, tree)
       IN /\ log_params' = Some(res.list)
          /\ ret' = IF res.raised THEN [status |-> "raised", value |-> None]
                    ELSE [status |-> "ok", value |-> Some(res.list)]
    /\ call' = [op |-> "get_log_params"]
    /\ pc' = "ret"
    /\ UNCHANGED <<data, alpha, n, d, root, mst, tree, mi, locals>>

\* log_prob(x, exhaustive) on a batch x of one query.
LogProb(query, exhaustive) ==
    /\ pc = "idle"
    /\ LET res == LogProbOf(tree, log_params, d, root, <<query>>, exhaustive)
       IN /\ ret' = IF res.raised THEN [status |-> "raised", value |-> None]
                    ELSE [status |-> "ok", value |-> res.value]
          /\ elimination_order' = res.elimination_order
          /\ factors' = res.factors
          /\ orphans' = res.orphans
    /\ call' = [op |-> "log_prob", x |-> <<query>>, exhaustive |-> exhaustive]
    /\ pc' = "ret"
    /\ UNCHANGED <<fields, samples, sample, num_variables_set, jscan, writes>>

\* The values `1 if np.random.rand() < np.exp(v) else 0` can take: rand() is in
\* [0, 1), and a comparison with nan is false.
Bernoulli(v) == {b \in {0, 1} : IF b = 1 THEN ~IsNaN(v) /\ v[1] > 0
                                ELSE IsNaN(v) \/ v[1] < v[2]}

\* sample(n_samples), line 243.
SampleCall(n_samples) ==
    /\ pc = "idle"
    /\ call' = [op |-> "sample", n_samples |-> n_samples]
    /\ samples' = <<>>
    /\ pc' = "draw"
    /\ UNCHANGED <<fields, ret, elimination_order, factors, orphans,
                   sample, num_variables_set, jscan, writes>>

\* A raised exception ends the call of sample() where it stands.
Raise ==
    /\ ret' = [status |-> "raised", value |-> None]
    /\ pc' = "ret"
    /\ UNCHANGED <<sample, num_variables_set, jscan, writes>>

\* Lines 244-247 and 258: the next draw starts with the root, or the call returns.
SampleDraw ==
    /\ pc = "draw"
    /\ IF Len(samples) = call.n_samples
       THEN /\ ret' = [status |-> "ok", value |-> samples]
            /\ pc' = "ret"
            /\ UNCHANGED <<sample, num_variables_set, jscan, writes>>
       ELSE IF \/ log_params = None
               \/ ~InRange(root, ListLen(Get(log_params)))
               \/ ~InRange(root, d)
       THEN Raise
       ELSE \E b \in Bernoulli(Get(log_params)[Pos(root, d)][1][1]) :
            /\ sample' = [i \in 0..d-1 |-> IF i = Pos(root, d) THEN b ELSE -1]
            /\ num_variables_set' = 1
            /\ writes' = <<[var |-> Pos(root, d), row |-> -1]>>
            /\ pc' = "while"
            /\ UNCHANGED <<ret, jscan>>
    /\ UNCHANGED <<fields, call, samples, elimination_order, factors, orphans>>

\* Line 248, and line 256 when the loop ends.
SampleWhile ==
    /\ pc = "while"
    /\ IF num_variables_set < d
       THEN /\ jscan' = 0
            /\ pc' = "scan"
            /\ UNCHANGED samples
       ELSE /\ samples' = Append(samples, sample)
            /\ pc' = "draw"
            /\ UNCHANGED jscan
    /\ UNCHANGED <<fields, call, ret, elimination_order, factors, orphans,
                   sample, num_variables_set, writes>>

\* A guard that does not wait for the parent.
ScanGuardNoParent(j, parent) == sample[j] = -1

\* Line 251: variable j is written in this iteration.  (Called when the tree is
\* there, j is not the root and its parent is an index of sample.)
ScanGuard(j, parent) == sample[j] = -1 /\ sample[Pos(parent, d)] # -1

\* Lines 249-255: one iteration of the scan, at j = jscan.
SampleScan ==
    /\ pc = "scan"
    /\ IF jscan = d
       THEN /\ pc' = "while"
            /\ UNCHANGED <<ret, sample, num_variables_set, jscan, writes>>
       ELSE IF tree = None
       THEN Raise
       ELSE LET parent == Get(tree)[jscan]
            IN IF jscan = root \/ sample[jscan] # -1
               THEN /\ jscan' = jscan + 1
                    /\ UNCHANGED <<pc, ret, sample, num_variables_set, writes>>
               ELSE IF ~InRange(parent, d)
               THEN Raise
               ELSE IF ~ScanGuard(jscan, parent)
               THEN /\ jscan' = jscan + 1
                    /\ UNCHANGED <<pc, ret, sample, num_variables_set, writes>>
               ELSE IF jscan \notin DOMAIN Get(log_params)
               THEN Raise
               ELSE \E b \in Bernoulli(
                      Get(log_params)[jscan][Pos(sample[Pos(parent, d)], 2)][1]) :
                    /\ sample' = [sample EXCEPT ![jscan] = b]
                    /\ num_variables_set' = num_variables_set + 1
                    /\ writes' = Append(writes, [var |-> jscan,
                                                 row |-> sample[Pos(parent, d)]])
                    /\ jscan' = jscan + 1
                    /\ UNCHANGED <<pc, ret>>
    /\ UNCHANGED <<fields, call, samples, elimination_order, factors, orphans>>

\* The caller takes the outcome; the object is ready for the next call.
Return ==
    /\ pc = "ret"
    /\ pc' = "idle"
    /\ call' = [op |-> "none"]
    /\ ret' = [status |-> "none", value |-> None]
    /\ elimination_order' = <<>> /\ factors' = <<>> /\ orphans' = {}
    /\ samples' = <<>> /\ sample' = <<>> /\ num_variables_set' = 0 /\ jscan' = 0
    /\ writes' = <<>>
    /\ UNCHANGED fields

\* The calls that take no query, and the steps of a call of sample().
Steps ==
    \/ GetTree
    \/ GetLogParams
    \/ \E ns \in SampleCounts : SampleCall(ns)
    \/ SampleDraw
    \/ SampleWhile
    \/ SampleScan
    \/ Return

\* Any construction, then any calls with well-formed queries.
Next ==
    \/ \E dd \in 1..MaxD : \E dat \in Datasets(dd) :
         \E ra \in RootArgs(dd) : \E al \in Alphas : Construct(dat, dd, ra, al)
    \/ \E q \in Queries(d) : \E ex \in BOOLEAN : LogProb(q, ex)
    \/ Steps

Spec == Init /\ [][Next]_vars

\* A construction with valid arguments, then any calls with well-formed queries.
ConstructValid ==
    \E dd \in 1..MaxD : \E dat \in OneRowDatasets(dd) :
        \E ra \in ValidRootArgs(dd) : \E al \in ValidAlphas :
            Construct(dat, dd, ra, al)

NextValid ==
    \/ ConstructValid
    \/ \E q \in Queries(d) : \E ex \in BOOLEAN : LogProb(q, ex)
    \/ Steps

SpecValid == Init /\ [][NextValid]_vars

\* A construction with valid arguments, then any calls, ill-formed queries too.
AllQueries(dd) == Queries(dd) \cup IllFormedQueries(dd)

NextQuery ==
    \/ ConstructValid
    \/ \E q \in AllQueries(d) : \E ex \in BOOLEAN : LogProb(q, ex)
    \/ Steps

SpecQuery == Init /\ [][NextQuery]_vars

-----------------------------------------------------------------------------
(* Properties *)

\* A valid rooted tree: the root alone has parent -1, every other parent is an
\* index, and following parents from any node reaches the root.
RECURSIVE Up(_, _, _)
Up(t, i, k) == IF k = 0 \/ t[i] \notin DOMAIN t THEN i ELSE Up(t, t[i], k - 1)

ValidTree(t, dd, r) ==
    /\ r \in 0..dd-1
    /\ DOMAIN t = 0..dd-1
    /\ \A i \in 0..dd-1 : (t[i] = -1) <=> (i = r)
    /\ \A i \in 0..dd-1 : i # r => t[i] \in 0..dd-1
    /\ \A i \in 0..dd-1 : Up(t, i, dd) = r

\* The tree and the CPTs of every variable have been computed.
Computed == tree # None /\ log_params # None /\ ListLen(Get(log_params)) = d

\* The object was constructed with a root in [0, d) and alpha > 0.
ValidArguments == pc # "new" /\ root \in 0..d-1 /\ alpha > 0

\* A call of log_prob has just ended, the query q its one row.
AfterLogProb == pc = "ret" /\ call.op = "log_prob"
TheQuery == call.x[1]

\* |ln a - ln b| <= 1e-9 for two log-values: with X/Y their ratio, X >= Y, this
\* is X - Y <= Y * (e^(1e-9) - 1), which for X < 2^31 is as below.
Close(a, b) ==
    IF IsNaN(a) \/ IsNaN(b) \/ a[1] = 0 \/ b[1] = 0 THEN a = b /\ ~IsNaN(a)
    ELSE LET X == a[1] * b[2]
             Y == b[1] * a[2]
             lo == IF X < Y THEN X ELSE Y
             k == IF X < Y THEN Y - X ELSE X - Y
         IN k = 0 \/ (k <= 2 /\ k * 1000000000 <= lo)

\* C1: on a model with tree and CPTs computed, log_prob(query, exhaustive=False)
\* of a partially observed query (some entry missing, the others 0 or 1) is
\* within 1e-9 of what log_prob(query, exhaustive=True) returns.
C1_EliminationAgreesWithExhaustive ==
    (/\ AfterLogProb /\ ~call.exhaustive
     /\ ValidArguments /\ Computed /\ ValidTree(Get(tree), d, root)
     /\ TheQuery \in Queries(d) /\ MissingVars(TheQuery) # {})
    => /\ ret.status = "ok"
       /\ ~ExhaustiveQuery(tree, log_params, d, TheQuery).raised
       /\ Close(ret.value[1], ExhaustiveQuery(tree, log_params, d, TheQuery).value)

\* C2: on a valid rooted tree, log_prob(exhaustive=False) of the query whose d
\* entries are all missing returns 0, and no factor is left to be summed.
C2_AllMissingIsZero ==
    (/\ AfterLogProb /\ ~call.exhaustive
     /\ Computed /\ ValidTree(Get(tree), d, root)
     /\ TheQuery = [i \in 0..d-1 |-> nan])
    => /\ ret.status = "ok"
       /\ ret.value = <<LogOne>>
       /\ DOMAIN factors = {}

C2_Witness ==
    /\ AfterLogProb /\ ~call.exhaustive /\ ret.status = "ok"
    /\ Computed /\ ValidTree(Get(tree), d, root)
    /\ d = 3 /\ \E i \in 0..d-1 : Get(tree)[i] # -1 /\ Get(tree)[i] # root
    /\ TheQuery = [i \in 0..d-1 |-> nan]

\* C3: get_tree() on a binary dataset, with a root in [0, d), returns a parent
\* array in which the root alone has parent -1, every other entry is an index
\* in [0, d), and following parents from any node reaches the root.
C3_TreeIsValid ==
    (pc = "ret" /\ call.op = "get_tree" /\ ValidArguments)
    => ret.status = "ok" /\ ValidTree(Get(tree), d, root)

\* C4: log_prob, sample and get_log_params never run against a tree or a CPT
\* list that is None: an operation that needs one finds it computed or computes
\* it, so that it is there when the operation ends.
NeedsTree ==
    \/ call.op = "log_prob"
    \/ call.op = "get_log_params" /\ d > 1
    \/ call.op = "sample" /\ call.n_samples > 0 /\ d > 1
NeedsParams ==
    \/ call.op = "log_prob"
    \/ call.op = "sample" /\ call.n_samples > 0

C4_ComputedOnDemand ==
    (pc = "ret" /\ ValidArguments)
    => /\ NeedsTree => tree # None
       /\ NeedsParams => log_params # None

\* C5: no object exists whose root is outside [0, d) or whose alpha is <= 0:
\* construction with such arguments fails.
C5_ConstructionRejectsInvalid ==
    pc # "new" => root \in 0..d-1 /\ alpha > 0

\* C6: log_prob returns no log-probability for a query with an entry that is
\* not 0, 1 or missing, or whose length is not d.
C6_IllFormedQueryRejected ==
    (/\ AfterLogProb
     /\ ValidArguments /\ Computed /\ ValidTree(Get(tree), d, root)
     /\ TheQuery \notin Queries(d))
    => ret.status # "ok"

\* C7: the root is fixed at construction and no call changes it; the variable
\* whose CPT is the unconditional root block is the one whose parent is -1.
RootBlockAtRoot ==
    Computed =>
        \A i \in 0..d-1 :
            (Get(log_params)[i] = RootBlock(data, i, alpha)) <=> (Get(tree)[i] = -1)

C7_RootIsFixed ==
    /\ []RootBlockAtRoot
    /\ [][pc # "new" => root' = root]_vars

C7_Witness ==
    /\ Computed /\ d = 3 /\ root # 0
    /\ pc = "ret" /\ call.op = "sample" /\ ret.status = "ok" /\ Len(ret.value) = 1

\* C8: when the variable-elimination path of log_prob reaches the final sum,
\* every factor left holds a single log-value.
C8_RemainingFactorsAreScalars ==
    (/\ AfterLogProb /\ ~call.exhaustive /\ ret.status = "ok"
     /\ ValidArguments /\ Computed /\ ValidTree(Get(tree), d, root)
     /\ TheQuery \in Queries(d) /\ MissingVars(TheQuery) # {})
    => \A v \in DOMAIN factors : factors[v].shape = <<1>>

\* C9: on a valid rooted tree every draw of sample() ends with each variable 0
\* or 1; the root is written first and every other variable exactly once, after
\* its parent, with the CPT row of the parent's value; and while a variable is
\* unwritten some scan writes one, so the loop of line 248 ends.
WriteAt(v) == CHOOSE k \in 1..Len(writes) : writes[k].var = v

WritesInOrder ==
    /\ Len(writes) = num_variables_set
    /\ writes # <<>> => writes[1].var = root
    /\ \A k, l \in 1..Len(writes) : writes[k].var = writes[l].var => k = l
    /\ \A i \in 0..d-1 : (sample[i] # -1) <=> (\E k \in 1..Len(writes) : writes[k].var = i)
    /\ \A i \in 0..d-1 : sample[i] \in {-1, 0, 1}
    /\ \A k \in 2..Len(writes) :
          LET parent == Get(tree)[writes[k].var]
          IN /\ sample[parent] \in {0, 1}
             /\ WriteAt(parent) < k
             /\ writes[k].row = sample[parent]

SomeVariableIsNext ==
    \E i \in 0..d-1 : sample[i] = -1 /\ sample[Get(tree)[i]] # -1

C9_SampleAssignsInOrder ==
    (/\ call.op = "sample"
     /\ Computed /\ ValidTree(Get(tree), d, root))
    => /\ ret.status # "raised"
       /\ pc \in {"while", "scan"} => WritesInOrder
       /\ pc = "while" /\ num_variables_set < d => SomeVariableIsNext
       /\ \A k \in 1..Len(samples) : \A i \in 0..d-1 : samples[k][i] \in {0, 1}
       /\ pc = "ret" => Len(ret.value) = call.n_samples

C9_Witness ==
    /\ call.op = "sample" /\ pc = "draw" /\ Len(samples) = 1
    /\ Computed /\ ValidTree(Get(tree), d, root)
    /\ d = 3 /\ Len(writes) = 3
    /\ Get(tree)[writes[3].var] = writes[2].var

\* C10: on a valid rooted tree the elimination order of log_prob, the result of
\* get_post_order(tree, root), holds each of the d variables once, every
\* variable before its parent and the root last; a missing variable is
\* eliminated while its parent's factor is still there.
C10_PostOrder ==
    (/\ AfterLogProb /\ ~call.exhaustive /\ ret.status = "ok"
     /\ Computed /\ ValidTree(Get(tree), d, root)
     /\ TheQuery \in Queries(d) /\ MissingVars(TheQuery) # {})
    => /\ Len(elimination_order) = d
       /\ \A i \in 0..d-1 : \E k \in 1..d : elimination_order[k] = i
       /\ elimination_order[d] = root
       /\ \A k, l \in 1..d :
             elimination_order[l] = Get(tree)[elimination_order[k]] => k < l
       /\ orphans = {}

C10_Witness ==
    /\ AfterLogProb /\ ~call.exhaustive /\ ret.status = "ok"
    /\ Computed /\ ValidTree(Get(tree), d, root)
    /\ d = 3 /\ \E i \in 0..d-1 : Get(tree)[i] # -1 /\ Get(tree)[i] # root
    /\ TheQuery = [i \in 0..d-1 |-> nan]
    /\ Len(elimination_order) = 3
====
